---- MODULE Spec2Model ----
(***************************************************************************)
(* gnartgen: the state actor (mod state, State::listen), the two channels  *)
(* set up in main, and the presentation layer's notification handler        *)
(* (ui::App::handle).                                                       *)
(*                                                                         *)
(* The SQLite store is modelled by what the statements of mod state do to   *)
(* the single table `objects`(id, name, description, source).  The table    *)
(* definition itself (data/schema.sqlite) is modelled from the spec:        *)
(* id integer primary key autoincrement, description and source nullable.   *)
(***************************************************************************)
EXTENDS Integers, Sequences, FiniteSets, TLC

VARIABLES
    state,          \* the State struct: open_file, conn, active_object
    dbs,            \* the databases: the in-memory one and the files on disk
    alive,          \* the actor thread has not panicked
    running,        \* the process has not been brought down by a panic
    inq,            \* rx_state: commands in flight to the actor
    outq,           \* rx_event: notifications in flight to the main loop
    app,            \* the App struct: header_bar, item_list, code_view
    submitted,      \* history: every command sent, in send order
    nproc,          \* history: number of commands the actor has dequeued
    sent,           \* history: every notification the actor has sent
    handled,        \* history: every notification App::handle has handled
    results,        \* history: the outcome of each command dequeued
    ghost           \* history: the object each text in flight was held for

vars == <<state, dbs, alive, running, inq, outq,
          app, submitted, nproc, sent, handled, results, ghost>>

(***************************************************************************)
(* Bounds and input alphabets                                              *)
(***************************************************************************)
MaxCmds == 4

Mem == ":memory:"
Paths == {"a.db", "ro.db", "bad.db"}
Texts == {"(+ 1 2)"}
Names == {"New Object (1)"}
Descrs == {"d"}
Ids == {1, 2}

\* Option<T>
None == <<>>
Some(x) == <<x>>

Max(S) == CHOOSE m \in S : \A n \in S : n <= m

(***************************************************************************)
(* The store                                                               *)
(***************************************************************************)
Row(name, description, source) ==
    [name |-> name, description |-> description, source |-> source]

\* a database: kind "db" holds the objects table, kind "garbage" is a file
\* that is not a database; writable is FALSE for a write-protected file
Schema(rows, writable) == [kind |-> "db", writable |-> writable, rows |-> rows]

new_project == Schema(<<>>, TRUE)

NotADatabase == [kind |-> "garbage", writable |-> TRUE, rows |-> <<>>]

\* files on disk when the program starts: a.db was saved by an earlier
\* session (one object, renamed, with stored source), ro.db is the same kind
\* of file write-protected, bad.db is not a database
InitialFiles ==
    [p \in Paths |->
        CASE p = "a.db"  -> Schema(<<Row("New Object (2)", Some("Mostly harmless."), Some("(* 2 3)"))>>, TRUE)
          [] p = "ro.db" -> Schema(<<Row("New Object (1)", Some("Mostly harmless."), None)>>, FALSE)
          [] OTHER       -> NotADatabase]

Ok(v) == [ok |-> TRUE, val |-> v]
Err(e) == [ok |-> FALSE, err |-> e]

\* Connection::open(path) then execute_batch(SCHEMA): the connection is
\* bound to the file when the schema script runs on it
open_file(d, path) ==
    IF d[path].kind = "db" THEN Ok(path) ELSE Err("sql")

\* the State struct
State(of, c, ao) == [open_file |-> of, conn |-> c, active_object |-> ao]

\* State::new
State_new == State(None, Mem, None)

\* the objects table of the bound store
Objects(st, d) == d[st.conn].rows

\* assigning self.conn drops the previous connection; dropping the
\* connection to the in-memory database destroys that database
DropConn(d, c) == IF c = Mem THEN [d EXCEPT ![Mem] = new_project] ELSE d

open_bind_first(st, d, path) ==
    LET r == open_file(d, path)
        bound == [st |-> [st EXCEPT !.conn = path], dbs |-> DropConn(d, st.conn)]
    IN  IF ~r.ok THEN [ok |-> FALSE, err |-> r.err, st |-> bound.st, dbs |-> bound.dbs]
        ELSE [ok |-> TRUE, st |-> bound.st, dbs |-> bound.dbs]

open_fresh_state(st, d, path) ==
    LET r == open_file(d, path) IN
    IF ~r.ok THEN [ok |-> FALSE, err |-> r.err, st |-> st, dbs |-> d]
    ELSE [ok |-> TRUE, st |-> State(st.open_file, r.val, None),
          dbs |-> DropConn(d, st.conn)]

\* State::open
open(st, d, path) ==
    LET r == open_file(d, path) IN
    IF ~r.ok THEN [ok |-> FALSE, err |-> r.err, st |-> st, dbs |-> d]
    ELSE [ok |-> TRUE, st |-> [st EXCEPT !.conn = r.val],
          dbs |-> DropConn(d, st.conn)]

\* save_file: conn.backup(Main, path, None) opens a second connection on
\* path and copies every page of the live database onto it.  The copy fails
\* on a file that is not a database or is write-protected, and on the file
\* the live connection itself holds open (the live connection's read lock
\* keeps the copy from committing); a failed copy is rolled back.
save_file(st, d, path) ==
    IF path = st.conn \/ d[path].kind # "db" \/ ~d[path].writable
    THEN [ok |-> FALSE, err |-> "sql", dbs |-> d]
    ELSE [ok |-> TRUE, dbs |-> [d EXCEPT ![path].rows = Objects(st, d)]]

save_as_open_first(st, d, path) ==
    LET o == open(st, d, path) IN
    IF ~o.ok THEN [ok |-> FALSE, err |-> "sql", st |-> st, dbs |-> d]
    ELSE LET b == save_file(o.st, o.dbs, path) IN
         [ok |-> TRUE, st |-> o.st, dbs |-> o.dbs]

\* State::save_as
save_as(st, d, path) ==
    LET b == save_file(st, d, path) IN
    IF ~b.ok THEN [ok |-> FALSE, err |-> b.err, st |-> st, dbs |-> b.dbs]
    ELSE open(st, b.dbs, path)

RECURSIVE unique_name_loop(_, _)
unique_name_loop(existing, i) ==
    LET name == "New Object" \o " (" \o ToString(i) \o ")" IN
    IF name \notin existing THEN name ELSE unique_name_loop(existing, i + 1)

unique_name_count(st, d) ==
    Ok("New Object" \o " (" \o ToString(Len(Objects(st, d)) + 1) \o ")")

\* State::unique_name
unique_name(st, d) ==
    LET existing == {Objects(st, d)[i].name : i \in DOMAIN Objects(st, d)}
    IN  Ok(unique_name_loop(existing, 1))

\* the id an autoincrement primary key gives the next inserted row
NextRowid(rows) == IF DOMAIN rows = {} THEN 1 ELSE Max(DOMAIN rows) + 1

insert_new_stale_rowid(st, d, name, description) ==
    LET db == d[st.conn]
        id == NextRowid(db.rows)
        rows2 == [i \in DOMAIN db.rows \cup {id} |->
                    IF i = id THEN Row(name, description, None) ELSE db.rows[i]]
    IN  IF ~db.writable THEN [ok |-> FALSE, err |-> "sql", dbs |-> d]
        ELSE [ok |-> TRUE, val |-> id - 1,
              dbs |-> [d EXCEPT ![st.conn].rows = rows2]]

\* State::insert_new
insert_new(st, d, name, description) ==
    LET db == d[st.conn]
        id == NextRowid(db.rows)
        rows2 == [i \in DOMAIN db.rows \cup {id} |->
                    IF i = id THEN Row(name, description, None) ELSE db.rows[i]]
    IN  IF ~db.writable THEN [ok |-> FALSE, err |-> "sql", dbs |-> d]
        ELSE [ok |-> TRUE, val |-> id,
              dbs |-> [d EXCEPT ![st.conn].rows = rows2]]

SqlUpdate_every_row(d, c, id, field, value) ==
    LET db == d[c] IN
    IF ~db.writable THEN [ok |-> FALSE, err |-> "sql", dbs |-> d]
    ELSE [ok |-> TRUE,
          dbs |-> [d EXCEPT ![c].rows =
                     [i \in DOMAIN db.rows |->
                        [db.rows[i] EXCEPT ![field] = value]]]]

\* "update `objects` set <field> = ?2 where `id` = ?1": every row whose id
\* matches is set; execute returns the number of rows changed as Ok
SqlUpdate(d, c, id, field, value) ==
    LET db == d[c] IN
    IF ~db.writable THEN [ok |-> FALSE, err |-> "sql", dbs |-> d]
    ELSE [ok |-> TRUE,
          dbs |-> [d EXCEPT ![c].rows =
                     [i \in DOMAIN db.rows |->
                        IF i = id THEN [db.rows[i] EXCEPT ![field] = value]
                        ELSE db.rows[i]]]]

\* State::update_name
update_name(st, d, name) ==
    IF st.active_object = None THEN [ok |-> FALSE, err |-> "user", dbs |-> d]
    ELSE SqlUpdate(d, st.conn, st.active_object[1], "name", name)

update_source_id0(st, d, source) ==
    SqlUpdate(d, st.conn, IF st.active_object = None THEN 0
                          ELSE st.active_object[1], "source", Some(source))

update_source_descr(st, d, source) ==
    IF st.active_object = None THEN [ok |-> FALSE, err |-> "user", dbs |-> d]
    ELSE SqlUpdate(d, st.conn, st.active_object[1], "description", Some(source))

\* State::update_source
update_source(st, d, source) ==
    IF st.active_object = None THEN [ok |-> FALSE, err |-> "user", dbs |-> d]
    ELSE SqlUpdate(d, st.conn, st.active_object[1], "source", Some(source))

\* State::update_description
update_description(st, d, descr) ==
    IF st.active_object = None THEN [ok |-> FALSE, err |-> "user", dbs |-> d]
    ELSE SqlUpdate(d, st.conn, st.active_object[1], "description", Some(descr))

select_by_name_clearing(st, d, name) ==
    LET rows == Objects(st, d)
        hits == {i \in DOMAIN rows : rows[i].name = name}
    IN  IF hits = {}
        THEN [ok |-> FALSE, err |-> "sql", st |-> [st EXCEPT !.active_object = None]]
        ELSE [ok |-> TRUE,
              st |-> [st EXCEPT !.active_object =
                        Some(CHOOSE i \in hits : \A j \in hits : i <= j)]]

\* State::select_by_name: query_row takes the first row of the table scan
select_by_name(st, d, name) ==
    LET rows == Objects(st, d)
        hits == {i \in DOMAIN rows : rows[i].name = name}
    IN  IF hits = {} THEN [ok |-> FALSE, err |-> "sql", st |-> st]
        ELSE [ok |-> TRUE,
              st |-> [st EXCEPT !.active_object =
                        Some(CHOOSE i \in hits : \A j \in hits : i <= j)]]

\* State::read_source: no row, or a NULL source read as String, is an Err
read_source(st, d, id) ==
    LET rows == Objects(st, d) IN
    IF id \notin DOMAIN rows THEN Err("sql")
    ELSE IF rows[id].source = None THEN Err("sql")
    ELSE Ok(rows[id].source[1])

(***************************************************************************)
(* Messages                                                                *)
(***************************************************************************)
\* state::Msg
Open(path) == [type |-> "Open", path |-> path]
NewItem == [type |-> "NewItem"]
StoreCode(text) == [type |-> "StoreCode", text |-> text]
SetActiveObject(name) == [type |-> "SetActiveObject", name |-> name]
SelectItem(id) == [type |-> "SelectItem", id |-> id]
SetDescription(text) == [type |-> "SetDescription", text |-> text]
SetName(name) == [type |-> "SetName", name |-> name]

\* the commands senders put on the inbound queue
Cmds ==
    {Open(p) : p \in Paths} \cup {NewItem} \cup {StoreCode(t) : t \in Texts}
    \cup {SetActiveObject(n) : n \in Names} \cup {SelectItem(i) : i \in Ids}
    \cup {SetDescription(t) : t \in Descrs} \cup {SetName(n) : n \in Names}

\* ui::ItemInfo and ui::Msg
ItemInfo(id, name, description) ==
    [id |-> id, name |-> name, description |-> description]
SetFilename(path) == [type |-> "SetFilename", path |-> path]
ClearItems == [type |-> "ClearItems"]
UiNewItem(info) == [type |-> "NewItem", info |-> info]
SetSource(text) == [type |-> "SetSource", text |-> text]

(***************************************************************************)
(* State::listen, one operator per match arm.  Each gives the State and    *)
(* the databases after the arm, the notifications sent on tx_event, and    *)
(* the outcome: "ok", a logged "user" or "sql" error, or "panic" when an   *)
(* unwrap() hits an Err.                                                   *)
(***************************************************************************)
Outcome(st, d, out, res) == [st |-> st, dbs |-> d, out |-> out, res |-> res]

listen_Open_marker_first(st, d, path) ==
    LET r == open(st, d, path) IN
    IF r.ok
    THEN Outcome([r.st EXCEPT !.open_file = Some(path)], r.dbs,
                 <<SetFilename(path)>>, "ok")
    ELSE Outcome([r.st EXCEPT !.open_file = Some(path)], r.dbs, <<>>, "sql")

listen_Open(st, d, path) ==
    LET r == open(st, d, path) IN
    IF r.ok
    THEN Outcome([r.st EXCEPT !.open_file = Some(path)], r.dbs,
                 <<SetFilename(path)>>, "ok")
    ELSE Outcome(r.st, r.dbs, <<>>, "sql")

listen_NewItem_notify_first(st, d) ==
    LET name == unique_name(st, d)
        description == Some("Mostly harmless.")
        id == insert_new(st, d, name.val, description)
        note == UiNewItem(ItemInfo(Len(Objects(st, d)) + 1, name.val, description))
    IN  IF ~id.ok THEN Outcome(st, id.dbs, <<note>>, "panic")
        ELSE Outcome(st, id.dbs, <<note>>, "ok")

listen_NewItem(st, d) ==
    LET name == unique_name(st, d) IN
    IF ~name.ok THEN Outcome(st, d, <<>>, "panic")
    ELSE LET description == Some("Mostly harmless.")
             id == insert_new(st, d, name.val, description)
         IN  IF ~id.ok THEN Outcome(st, id.dbs, <<>>, "panic")
             ELSE Outcome(st, id.dbs,
                          <<UiNewItem(ItemInfo(id.val, name.val, description))>>,
                          "ok")

listen_StoreCode(st, d, text) ==
    LET r == update_source(st, d, text) IN
    Outcome(st, r.dbs, <<>>, IF r.ok THEN "ok" ELSE r.err)

listen_SetActiveObject(st, d, obj) ==
    LET r == select_by_name(st, d, obj) IN
    Outcome(r.st, d, <<>>, IF r.ok THEN "ok" ELSE r.err)

listen_SetDescription(st, d, text) ==
    LET r == update_description(st, d, text) IN
    Outcome(st, r.dbs, <<>>, IF r.ok THEN "ok" ELSE r.err)

listen_SetName(st, d, name) ==
    LET r == update_name(st, d, name) IN
    Outcome(st, r.dbs, <<>>, IF r.ok THEN "ok" ELSE r.err)

listen_SelectItem_on_ok(st, d, id) ==
    LET st2 == [st EXCEPT !.active_object = Some(id)]
        r == read_source(st2, d, id)
    IN  IF r.ok THEN Outcome(st2, d, <<SetSource(r.val)>>, "ok")
        ELSE Outcome(st2, d, <<>>, "sql")

listen_SelectItem(st, d, id) ==
    LET st2 == [st EXCEPT !.active_object = Some(id)]
        r == read_source(st2, d, id)
        source == IF r.ok THEN r.val ELSE ""
    IN  Outcome(st2, d, <<SetSource(source)>>, "ok")

\* the match of State::listen
listen_match(st, d, msg) ==
    CASE msg.type = "Open" -> listen_Open(st, d, msg.path)
      [] msg.type = "NewItem" -> listen_NewItem(st, d)
      [] msg.type = "StoreCode" -> listen_StoreCode(st, d, msg.text)
      [] msg.type = "SetActiveObject" -> listen_SetActiveObject(st, d, msg.name)
      [] msg.type = "SetDescription" -> listen_SetDescription(st, d, msg.text)
      [] msg.type = "SetName" -> listen_SetName(st, d, msg.name)
      [] msg.type = "SelectItem" -> listen_SelectItem(st, d, msg.id)

(***************************************************************************)
(* ui::App                                                                 *)
(***************************************************************************)
App(header_bar, item_list, code_view) ==
    [header_bar |-> header_bar, item_list |-> item_list, code_view |-> code_view]

\* App::new followed by the clear_items of main
App_new == App(None, <<>>, "")

\* App::handle.  The paths of Paths have no directory part: the title is
\* the path itself.
handle(a, msg) ==
    CASE msg.type = "SetFilename" -> [a EXCEPT !.header_bar = Some(msg.path)]
      [] msg.type = "ClearItems" -> [a EXCEPT !.item_list = <<>>]
      [] msg.type = "NewItem" -> [a EXCEPT !.item_list = Append(@, msg.info)]
      [] msg.type = "SetSource" -> [a EXCEPT !.code_view = msg.text]

(***************************************************************************)
(* The system: main's two channels, the actor thread, the main loop        *)
(***************************************************************************)
\* the databases when main starts: new_project's in-memory database and
\* the files on disk
InitDbs == [c \in {Mem} \cup Paths |->
              IF c = Mem THEN new_project ELSE InitialFiles[c]]

\* ghost.code_of[i]: the object (connection, id) the code_view held the text
\* of when the i-th queued command took its text from it, None otherwise;
\* ghost.note_of[i]: the object whose source the i-th queued notification
\* carries; ghost.buffer_of: the object whose source the code_view was last
\* set to, None for the buffer App::new creates
Ghost(code_of, note_of, buffer_of) ==
    [code_of |-> code_of, note_of |-> note_of, buffer_of |-> buffer_of]

\* the objects the notifications out, sent with the State st, are about
NotesOf(st, out) ==
    [k \in 1..Len(out) |->
        IF out[k].type = "SetSource"
        THEN Some(<<st.conn, st.active_object[1]>>) ELSE None]

Init ==
    /\ state = State_new
    /\ dbs = InitDbs
    /\ alive = TRUE
    /\ running = TRUE
    /\ inq = <<>>
    /\ outq = <<>>
    /\ app = App_new
    /\ submitted = <<>>
    /\ nproc = 0
    /\ sent = <<>>
    /\ handled = <<>>
    /\ results = <<>>
    /\ ghost = Ghost(<<>>, <<>>, None)

\* tx_state.send(cmd).unwrap() by any holder of a clone of tx_state.  The
\* send fails once the actor thread has dropped rx_state, and the unwrap
\* then brings the process down.
Send(cmd) ==
    /\ running
    /\ Len(submitted) < MaxCmds
    /\ IF alive
       THEN /\ inq' = Append(inq, cmd)
            /\ submitted' = Append(submitted, cmd)
            /\ UNCHANGED running
            /\ ghost' = [ghost EXCEPT !.code_of = Append(@, None)]
       ELSE /\ running' = FALSE
            /\ UNCHANGED <<inq, submitted, ghost>>
    /\ UNCHANGED <<state, dbs, alive, outq, app, nproc, sent, handled, results>>

rx_next_newest(q) == q[Len(q)]
\* the message the `for msg in rx` loop of State::listen takes next
rx_next(q) == Head(q)
rx_rest(q) == Tail(q)

\* one iteration of the loop of State::listen on a message of type t
Listen(t) ==
    /\ running
    /\ alive
    /\ inq # <<>>
    /\ rx_next(inq).type = t
    /\ LET msg == rx_next(inq)
           o == listen_match(state, dbs, msg)
       IN  /\ state' = o.st
           /\ dbs' = o.dbs
           /\ outq' = outq \o o.out
           /\ sent' = sent \o o.out
           /\ alive' = (o.res # "panic")
           /\ results' = Append(results, o.res)
           /\ ghost' = [ghost EXCEPT !.code_of = Tail(@),
                                     !.note_of = @ \o NotesOf(o.st, o.out)]
    /\ inq' = rx_rest(inq)
    /\ nproc' = nproc + 1
    /\ UNCHANGED <<running, app, submitted, handled>>

ListenOpen == Listen("Open")
ListenNewItem == Listen("NewItem")
ListenStoreCode == Listen("StoreCode")
ListenSetActiveObject == Listen("SetActiveObject")
ListenSetDescription == Listen("SetDescription")
ListenSetName == Listen("SetName")
ListenSelectItem == Listen("SelectItem")

Dispatch_newest ==
    /\ running
    /\ outq # <<>>
    /\ app' = handle(app, outq[Len(outq)])
    /\ handled' = Append(handled, outq[Len(outq)])
    /\ outq' = SubSeq(outq, 1, Len(outq) - 1)
    /\ ghost' = [ghost EXCEPT
                   !.note_of = SubSeq(@, 1, Len(@) - 1),
                   !.buffer_of = IF outq[Len(outq)].type = "SetSource"
                                 THEN ghost.note_of[Len(outq)] ELSE @]
    /\ UNCHANGED <<state, dbs, alive, running, inq, submitted, nproc, sent, results>>

\* rx_event.attach(None, move |msg| app.handle(msg)): the main loop takes
\* the oldest notification and runs App::handle on it
Dispatch ==
    /\ running
    /\ outq # <<>>
    /\ app' = handle(app, Head(outq))
    /\ handled' = Append(handled, Head(outq))
    /\ outq' = Tail(outq)
    /\ ghost' = [ghost EXCEPT
                   !.note_of = Tail(@),
                   !.buffer_of = IF Head(outq).type = "SetSource"
                                 THEN Head(ghost.note_of) ELSE @]
    /\ UNCHANGED <<state, dbs, alive, running, inq, submitted, nproc, sent, results>>

Next ==
    \/ \E cmd \in Cmds : Send(cmd)
    \/ ListenOpen
    \/ ListenNewItem
    \/ ListenStoreCode
    \/ ListenSetActiveObject
    \/ ListenSetDescription
    \/ ListenSetName
    \/ ListenSelectItem
    \/ Dispatch

Spec == Init /\ [][Next]_vars

\* State::save_as run by the actor thread between two commands.  No arm of
\* State::listen calls it: the step stands for a caller of the method.
SaveAs(path) ==
    /\ running
    /\ alive
    /\ LET r == save_as(state, dbs, path)
       IN  /\ state' = r.st
           /\ dbs' = r.dbs
    /\ UNCHANGED <<alive, running, inq, outq, app, submitted, nproc, sent,
                   handled, results, ghost>>

MaxCmdsSaveAs == 3

NextSaveAs ==
    \/ \E cmd \in Cmds : Len(submitted) < MaxCmdsSaveAs /\ Send(cmd)
    \/ ListenOpen
    \/ ListenNewItem
    \/ ListenStoreCode
    \/ ListenSetActiveObject
    \/ ListenSetDescription
    \/ ListenSetName
    \/ ListenSelectItem
    \/ Dispatch
    \/ \E path \in Paths : SaveAs(path)

\* the program with State::save_as called at any point of the actor's loop
SpecSaveAs == Init /\ [][NextSaveAs]_vars

(***************************************************************************)
(* The signal handlers of App::connect and the user's typing, which put     *)
(* only Open, NewItem, StoreCode and SelectItem on the inbound queue        *)
(***************************************************************************)
MaxClicks == 4

\* the signal handlers run so far: each sends exactly one command that is
\* not a SelectItem
Clicks == Len(SelectSeq(submitted, LAMBDA c : c.type # "SelectItem"))

\* a handler's tx_state.send(..).unwrap() calls, in order, the texts of the
\* commands being held for the objects of
HandlerSends(cmds, of) ==
    /\ running
    /\ Clicks < MaxClicks
    /\ IF alive
       THEN /\ inq' = inq \o cmds
            /\ submitted' = submitted \o cmds
            /\ ghost' = [ghost EXCEPT !.code_of = @ \o of]
            /\ UNCHANGED running
       ELSE /\ running' = FALSE
            /\ UNCHANGED <<inq, submitted, ghost>>
    /\ UNCHANGED <<state, dbs, alive, outq, app, nproc, sent, handled, results>>

\* "open_button_clicked" with a path chosen in the dialog
open_button_clicked(path) == HandlerSends(<<Open(path)>>, <<None>>)

\* "add_item_clicked"
add_item_clicked == HandlerSends(<<NewItem>>, <<None>>)

\* "item_select" on the row-th row of item_list
item_select(row) ==
    /\ row \in 1..Len(app.item_list)
    /\ HandlerSends(<<StoreCode(app.code_view),
                      SelectItem(app.item_list[row].id)>>,
                    <<ghost.buffer_of, None>>)

\* the user types in the code_view: the buffer holds an edited text of the
\* same object
EditBuffer(text) ==
    /\ running
    /\ app.code_view # text
    /\ app' = [app EXCEPT !.code_view = text]
    /\ UNCHANGED <<state, dbs, alive, running, inq, outq, submitted, nproc,
                   sent, handled, results, ghost>>

NextUI ==
    \/ \E path \in Paths : open_button_clicked(path)
    \/ add_item_clicked
    \/ \E row \in 1..MaxClicks : item_select(row)
    \/ \E text \in Texts : EditBuffer(text)
    \/ ListenOpen
    \/ ListenNewItem
    \/ ListenStoreCode
    \/ ListenSelectItem
    \/ Dispatch

\* the program driven by its user interface
SpecUI == Init /\ [][NextUI]_vars

TypeOK ==
    /\ state.conn \in {Mem} \cup Paths
    /\ alive \in BOOLEAN
    /\ running \in BOOLEAN
    /\ nproc \in 0..Len(submitted)

(***************************************************************************)
(* Properties                                                              *)
(***************************************************************************)
\* the actor is taking a message of type t off the inbound queue
Handling(t) ==
    /\ running /\ alive /\ inq # <<>> /\ Head(inq).type = t
    /\ nproc' = nproc + 1

\* the commands' effects applied one after the other to (st, d)
RECURSIVE ApplyInOrder(_, _, _)
ApplyInOrder(st, d, cmds) ==
    IF cmds = <<>> THEN [st |-> st, dbs |-> d, out |-> <<>>]
    ELSE LET o == listen_match(st, d, Head(cmds))
             r == ApplyInOrder(o.st, o.dbs, Tail(cmds))
         IN  [st |-> r.st, dbs |-> r.dbs, out |-> o.out \o r.out]

\* C1: the commands are handled one at a time in the order they were
\* enqueued: the commands still queued are exactly the ones sent after the
\* ones handled, and the store contents, cursor and open-file marker (and
\* the notifications sent) are those of applying the handled commands'
\* effects one after the other in send order.
C1_SequentialConsistency ==
    LET r == ApplyInOrder(State_new, InitDbs, SubSeq(submitted, 1, nproc))
    IN  /\ nproc <= Len(submitted)
        /\ inq = SubSeq(submitted, nproc + 1, Len(submitted))
        /\ state = r.st
        /\ dbs = r.dbs
        /\ sent = r.out

C1_Witness ==
    /\ nproc >= 3
    /\ inq # <<>>
    /\ submitted[1] # submitted[2]
    /\ submitted[2] # submitted[3]
    /\ Objects(state, dbs) # <<>>
    /\ state.active_object # None

RECURSIVE HandleInOrder(_, _)
HandleInOrder(a, msgs) ==
    IF msgs = <<>> THEN a ELSE HandleInOrder(handle(a, Head(msgs)), Tail(msgs))

\* C2: the notifications handled so far followed by the ones in flight are
\* exactly the notifications sent, in send order (each is handled once, in
\* order); the presentation state is that of App::handle run on them in that
\* order; and while notifications are still undelivered the actor can take
\* its next command.
C2_NotificationOrder ==
    /\ handled \o outq = sent
    /\ app = HandleInOrder(App_new, handled)
    /\ (running /\ alive /\ inq # <<>> /\ outq # <<>>) =>
          ENABLED Listen(Head(inq).type)

C2_Witness ==
    /\ Len(handled) >= 2
    /\ handled[1] # handled[2]
    /\ Len(outq) >= 1
    /\ nproc >= 3

\* C3: StoreCode, SetDescription and SetName handled with the cursor unset
\* fail with a User error, leave the store and the cursor as they were, send
\* no notification, and leave the actor running.
C3_SelectionPrecondition ==
    [][(/\ \E t \in {"StoreCode", "SetDescription", "SetName"} : Handling(t)
        /\ state.active_object = None)
       => (/\ results'[nproc'] = "user"
           /\ dbs' = dbs
           /\ state' = state
           /\ sent' = sent
           /\ outq' = outq
           /\ alive')]_vars

\* a User error was logged and a later command was handled
C3_Witness ==
    \E i \in 1..Len(results) :
        /\ results[i] = "user"
        /\ submitted[i].type = "StoreCode"
        /\ i < nproc

\* "New Object (k)"
DefaultName(k) == "New Object (" \o ToString(k) \o ")"

NamesOf(rows) == {rows[i].name : i \in DOMAIN rows}

\* C4: the name NewItem gives the object it inserts is "New Object (k)" for
\* the smallest k >= 1 whose "New Object (k)" is not the name of an object of
\* the bound store; it is the name of the inserted object and the name the
\* ItemCreated notification carries.
C4_UniqueName ==
    [][(Handling("NewItem") /\ alive')
       => LET existing == NamesOf(Objects(state, dbs))
              rows2 == Objects(state, dbs)'
              new == DOMAIN rows2 \ DOMAIN Objects(state, dbs)
          IN  /\ Cardinality(new) = 1
              /\ \A id \in new :
                    /\ rows2[id].name \notin existing
                    /\ \E k \in 1..(Cardinality(existing) + 1) :
                          /\ rows2[id].name = DefaultName(k)
                          /\ \A j \in 1..(k - 1) : DefaultName(j) \in existing
                    /\ sent'[Len(sent')].type = "NewItem"
                    /\ sent'[Len(sent')].info.name = rows2[id].name]_vars

\* NewItem gave "New Object (3)" to an object of a store whose other objects
\* are named "New Object (2)" and "New Object (1)", in the order of their ids
C4_Witness ==
    /\ nproc >= 1
    /\ submitted[nproc] = NewItem
    /\ results[nproc] = "ok"
    /\ Len(Objects(state, dbs)) = 3
    /\ Objects(state, dbs)[1].name = "New Object (2)"
    /\ Objects(state, dbs)[2].name = "New Object (1)"
    /\ Objects(state, dbs)[3].name = "New Object (3)"

\* C5: no command's error ends the receive loop: every command dequeued,
\* NewItem and Open included, ends "ok" or with a logged error, and the
\* actor stays alive to take the commands enqueued after it.
C5_ErrorsAreCaught ==
    /\ alive
    /\ \A i \in 1..Len(results) : results[i] \in {"ok", "user", "sql"}

\* C6: StoreCode, SetName and SetDescription handled with the cursor set to
\* an id that no object of the bound store has do not report success.
C6_UpdateOfMissingObjectFails ==
    [][(/\ \E t \in {"StoreCode", "SetDescription", "SetName"} : Handling(t)
        /\ state.active_object # None
        /\ state.active_object[1] \notin DOMAIN Objects(state, dbs))
       => results'[nproc'] # "ok"]_vars

\* C7: an Open that fails to load the file leaves the bound store, all
\* databases, the open-file marker and the cursor as they were, and sends no
\* notification.
C7_FailedOpenChangesNothing ==
    [][(Handling("Open") /\ dbs[Head(inq).path].kind # "db")
       => (/\ state' = state
           /\ dbs' = dbs
           /\ sent' = sent
           /\ outq' = outq
           /\ results'[nproc'] # "ok")]_vars

\* a failed Open was handled while the store held an object and the cursor
\* was set
C7_Witness ==
    /\ nproc >= 1
    /\ submitted[nproc] = Open("bad.db")
    /\ results[nproc] = "sql"
    /\ Objects(state, dbs) # <<>>
    /\ state.active_object # None

\* the handled Open commands whose file is a database, by position
SuccessfulOpens ==
    {i \in 1..nproc : submitted[i].type = "Open"
                       /\ InitialFiles[submitted[i].path].kind = "db"}

FilenamesSent == SelectSeq(sent, LAMBDA m : m.type = "SetFilename")

\* C8: a successful Open binds the actor to the store of the file, sets the
\* open-file marker to the path and sends one FilenameChanged(path): the
\* marker is unset when no Open has succeeded, and is otherwise the path of
\* the latest successful Open, which is the path of the last
\* FilenameChanged sent and the file the actor is bound to.
MarkerIsLatestOpen ==
    /\ Len(FilenamesSent) = Cardinality(SuccessfulOpens)
    /\ IF SuccessfulOpens = {}
       THEN state.open_file = None /\ state.conn = Mem
       ELSE LET path == submitted[Max(SuccessfulOpens)].path
            IN  /\ state.open_file = Some(path)
                /\ state.conn = path
                /\ FilenamesSent[Len(FilenamesSent)] = SetFilename(path)

C8_OpenFileMarker ==
    /\ []MarkerIsLatestOpen
    /\ [][Handling("Open") /\ dbs[Head(inq).path].kind = "db"
          => /\ Objects(state, dbs)' = dbs[Head(inq).path].rows
             /\ state'.open_file = Some(Head(inq).path)
             /\ sent' = Append(sent, SetFilename(Head(inq).path))]_vars

C8_Witness ==
    /\ Cardinality(SuccessfulOpens) = 2
    /\ state.open_file = Some("ro.db")
    /\ submitted[1] = Open("a.db")
    /\ submitted[nproc] = Open("bad.db")

\* C9: SelectItem(id) sets the cursor to id, leaves every database as it
\* was, and sends exactly one SourceLoaded: the stored source of object id
\* when the bound store has that object with a source, the empty text
\* otherwise.
C9_SelectItem ==
    [][Handling("SelectItem")
       => LET id == Head(inq).id
              rows == Objects(state, dbs)
              text == IF id \in DOMAIN rows /\ rows[id].source # None
                      THEN rows[id].source[1] ELSE ""
          IN  /\ state'.active_object = Some(id)
              /\ state'.conn = state.conn
              /\ state'.open_file = state.open_file
              /\ dbs' = dbs
              /\ sent' = Append(sent, SetSource(text))
              /\ outq' = Append(outq, SetSource(text))
              /\ alive']_vars

\* SelectItem was handled for an id the bound store does not have and for
\* an object with a stored source
C9_Witness ==
    /\ nproc >= 2
    /\ submitted[nproc].type = "SelectItem"
    /\ submitted[nproc].id \notin DOMAIN Objects(state, dbs)
    /\ sent[Len(sent)] = SetSource("")
    /\ \E i \in 1..Len(sent) : sent[i] = SetSource("(* 2 3)")

\* C10: while NewItem is the only command handled since construction, the
\* k-th NewItem has sent ItemCreated(k, "New Object (k)", "Mostly
\* harmless.") and the store holds exactly the objects 1..k with those names,
\* that description and no source.
C10_NewItemSequence ==
    (\A i \in 1..nproc : submitted[i] = NewItem)
    => /\ sent = [k \in 1..nproc |->
                    UiNewItem(ItemInfo(k, DefaultName(k), Some("Mostly harmless.")))]
       /\ state.conn = Mem
       /\ Objects(state, dbs) =
             [k \in 1..nproc |->
                Row(DefaultName(k), Some("Mostly harmless."), None)]
       /\ \A i \in 1..nproc : results[i] = "ok"

C10_Witness ==
    /\ nproc >= 3
    /\ \A i \in 1..nproc : submitted[i] = NewItem
    /\ Len(handled) >= 1

\* C11: SetActiveObject(name) leaves every database as it was and sends no
\* notification; when an object of the bound store has that name the cursor
\* becomes the id of such an object, and otherwise the cursor keeps its
\* value; the actor stays alive.
C11_SelectByName ==
    [][Handling("SetActiveObject")
       => LET name == Head(inq).name
              rows == Objects(state, dbs)
              hits == {i \in DOMAIN rows : rows[i].name = name}
          IN  /\ dbs' = dbs
              /\ sent' = sent
              /\ outq' = outq
              /\ state'.conn = state.conn
              /\ state'.open_file = state.open_file
              /\ alive'
              /\ IF hits = {}
                 THEN state'.active_object = state.active_object
                 ELSE /\ state'.active_object # None
                      /\ state'.active_object[1] \in hits]_vars

\* a SetActiveObject set the cursor, and a later one found no object of
\* that name and left the cursor set
C11_Witness ==
    /\ nproc >= 2
    /\ submitted[nproc].type = "SetActiveObject"
    /\ results[nproc] = "sql"
    /\ state.active_object # None
    /\ \E i \in 1..(nproc - 1) :
          submitted[i].type = "SetActiveObject" /\ results[i] = "ok"

\* the actor is taking SelectItem(id) right after SelectItem(id) and
\* StoreCode(t), for an object id of the bound store
ReloadAfterStore ==
    /\ Handling("SelectItem")
    /\ nproc >= 2
    /\ submitted[nproc].type = "StoreCode"
    /\ submitted[nproc - 1] = SelectItem(Head(inq).id)
    /\ Head(inq).id \in DOMAIN Objects(state, dbs)

\* the actor is taking SelectItem(id) for an object that a NewItem of this
\* run created, no StoreCode having been handled yet
SelectOfFreshObject ==
    /\ Handling("SelectItem")
    /\ \A i \in 1..nproc : submitted[i].type # "StoreCode"
    /\ Head(inq).id \in DOMAIN Objects(state, dbs)
    /\ Head(inq).id \notin DOMAIN InitDbs[state.conn].rows

C13_Identity ==
    [][/\ (\E t \in {"StoreCode", "SetDescription", "SetName", "SelectItem",
                     "SetActiveObject"} : Handling(t))
          => DOMAIN Objects(state, dbs)' = DOMAIN Objects(state, dbs)
       /\ Handling("NewItem")
          => /\ state' = state
             /\ \A id \in DOMAIN Objects(state, dbs) :
                   /\ id \in DOMAIN Objects(state, dbs)'
                   /\ Objects(state, dbs)'[id] = Objects(state, dbs)[id]
             /\ Cardinality(DOMAIN Objects(state, dbs)') <=
                   Cardinality(DOMAIN Objects(state, dbs)) + 1
       /\ \A k \in (Len(sent) + 1)..Len(sent') :
             sent'[k].type = "NewItem"
             => /\ sent'[k].info.id \in DOMAIN Objects(state, dbs)'
                /\ sent'[k].info.id \notin DOMAIN Objects(state, dbs)
                /\ Objects(state, dbs)'[sent'[k].info.id] =
                      Row(sent'[k].info.name, sent'[k].info.description, None)
       ]_vars

\* an object was created in the store loaded from a.db, under id 2 and the
\* name "New Object (1)", and a SetName was handled afterwards
C13_Witness ==
    /\ nproc >= 3
    /\ state.conn = "a.db"
    /\ DOMAIN Objects(state, dbs) = {1, 2}
    /\ sent[Len(sent)].type = "NewItem"
    /\ sent[Len(sent)].info.id = 2
    /\ sent[Len(sent)].info.name = "New Object (1)"
    /\ submitted[nproc].type = "SetName"
    /\ results[nproc] = "ok"
    /\ state.active_object = Some(1)

\* a step of save_as: the actor's state or a database changes while no
\* command is taken
SaveAsStep ==
    /\ nproc' = nproc
    /\ (state' # state \/ dbs' # dbs)

\* C14: save_file leaves the live store as it was, and every database as it
\* was when it fails; a step of save_as leaves the actor bound to a store
\* with the objects (id, name, description, source) the bound store had
\* before it, and with the cursor and the open-file marker it had; it
\* rebinds the actor only to a file the backup succeeded on, and changes
\* nothing when the backup fails.
C14_SaveAsRoundTrip ==
    /\ [](\A p \in Paths :
            LET b == save_file(state, dbs, p)
            IN  /\ b.dbs[state.conn] = dbs[state.conn]
                /\ ~b.ok => b.dbs = dbs)
    /\ [][SaveAsStep
          => /\ Objects(state, dbs)' = Objects(state, dbs)
             /\ state'.active_object = state.active_object
             /\ state'.open_file = state.open_file
             /\ state'.conn # state.conn
             /\ dbs[state'.conn].kind = "db"
             /\ dbs[state'.conn].writable]_vars

\* the objects created in memory were saved over a.db, to which the actor
\* is now bound without any Open
C14_Witness ==
    /\ state.conn = "a.db"
    /\ state.open_file = None
    /\ Len(Objects(state, dbs)) >= 2
    /\ Objects(state, dbs)[1].name = "New Object (1)"
    /\ dbs[Mem] = new_project

\* the field an update command writes and the value it writes there
UpdatedField(cmd) ==
    CASE cmd.type = "StoreCode" -> "source"
      [] cmd.type = "SetName" -> "name"
      [] cmd.type = "SetDescription" -> "description"

UpdatedValue(cmd) ==
    CASE cmd.type = "StoreCode" -> Some(cmd.text)
      [] cmd.type = "SetName" -> cmd.name
      [] cmd.type = "SetDescription" -> Some(cmd.text)

\* the actor is taking an update command with the cursor on an object of
\* the bound store
UpdateOfCursorObject ==
    /\ \E t \in {"StoreCode", "SetDescription", "SetName"} : Handling(t)
    /\ state.active_object # None
    /\ state.active_object[1] \in DOMAIN Objects(state, dbs)

\* the databases after the update command cmd has set its field of the
\* cursor object, and nothing else
OnlyFieldSet(cmd) ==
    [dbs EXCEPT ![state.conn].rows[state.active_object[1]][UpdatedField(cmd)] =
                   UpdatedValue(cmd)]

\* C15 as stated: with the cursor on an existing object, StoreCode(t),
\* SetName(t) and SetDescription(t) set that field of that object to t and
\* change nothing else; no notification is sent.
C15_UpdateAlwaysSetsField ==
    [][UpdateOfCursorObject
       => /\ dbs' = OnlyFieldSet(Head(inq))
          /\ state' = state
          /\ sent' = sent
          /\ outq' = outq]_vars

\* C15 amended: the same, unless the update fails with a store error, and
\* then every database is as it was; in both cases the cursor, the open-file
\* marker and the bound connection are unchanged and no notification is
\* sent.
C15_UpdateSetsOnlyField ==
    [][UpdateOfCursorObject
       => /\ IF results'[nproc'] = "ok"
             THEN dbs' = OnlyFieldSet(Head(inq))
             ELSE results'[nproc'] = "sql" /\ dbs' = dbs
          /\ state' = state
          /\ sent' = sent
          /\ outq' = outq
          /\ alive']_vars

\* SetDescription changed the description of object 2 and left object 1
\* with the description it had
C15_Witness ==
    /\ nproc >= 1
    /\ submitted[nproc] = SetDescription("d")
    /\ results[nproc] = "ok"
    /\ state.active_object = Some(2)
    /\ Len(Objects(state, dbs)) = 2
    /\ Objects(state, dbs)[2].description = Some("d")
    /\ Objects(state, dbs)[1].description = Some("Mostly harmless.")

\* C16: the cursor is unset until the first command is handled; once set it
\* is never unset again; and a step changes it only by handling SelectItem
\* or a SetActiveObject that found its object: no Open, successful or
\* failed, touches it.
C16_CursorNeverUnset ==
    /\ [](nproc = 0 => state.active_object = None)
    /\ [][/\ state.active_object # None => state'.active_object # None
          /\ state'.active_object # state.active_object
             => \/ Handling("SelectItem")
                \/ Handling("SetActiveObject") /\ results'[nproc'] = "ok"
          /\ Handling("Open") => state'.active_object = state.active_object
         ]_vars

\* the cursor was set, then one Open succeeded and one failed
C16_Witness ==
    /\ nproc >= 3
    /\ state.active_object # None
    /\ submitted[nproc] = Open("bad.db")
    /\ submitted[nproc - 1] = Open("a.db")
    /\ submitted[nproc - 2].type = "SelectItem"
    /\ state.conn = "a.db"

\* C17: the receive loop ends only when every command enqueued has been
\* dequeued and handled: whenever the actor's loop is over, no command is left
\* on the inbound queue.
C17_NoCommandLeftBehind ==
    ~alive => inq = <<>>

\* C18: the text a StoreCode sent by item_select writes into the cursor
\* object is a text the code_view held for that object: when such a
\* StoreCode changes an object of the bound store, the buffer it was read
\* from had last been set to the source of that same object.
C18_StoredTextBelongsToObject ==
    [][(/\ Handling("StoreCode")
        /\ state.active_object # None
        /\ state.active_object[1] \in DOMAIN Objects(state, dbs)
        /\ results'[nproc'] = "ok")
       => Head(ghost.code_of) = Some(<<state.conn, state.active_object[1]>>)]_vars

\* C19: whenever the cursor is set, it is the id of an object of the bound
\* store.
C19_CursorNamesObject ==
    state.active_object # None
    => state.active_object[1] \in DOMAIN Objects(state, dbs)

\* the ids of the rows of item_list
ListedIds == {app.item_list[i].id : i \in 1..Len(app.item_list)}

\* C20: once every command has been handled and every notification
\* dispatched, the ids of the rows of item_list are the ids of the objects of
\* the bound store.
C20_ListShowsStore ==
    (inq = <<>> /\ outq = <<>>) => ListedIds = DOMAIN Objects(state, dbs)

====
